---- MODULE Spec2Model ----
(***************************************************************************)
(* Model of src/main.js: the scroll-driven slide presentation.             *)
(*                                                                         *)
(* The page is a fixed layout (slides, viewport, document height) chosen   *)
(* at load time.  The browser delivers scroll events, animation frames,    *)
(* clicks and key presses; each handler of main.js is one action.          *)
(* All lengths are in CSS pixels and are multiples of Grid.  The focus     *)
(* point pageYOffset + innerHeight * 0.5 may fall on a half pixel, so it   *)
(* is kept doubled (2 * pageYOffset + innerHeight) and compared with       *)
(* doubled slide edges: the comparison is exact.                           *)
(*                                                                         *)
(* Modelled: SlideManager (progress, current slide, counter, goToSlide,    *)
(* getCurrentSlideIndex), HeaderManager, SlideNavigation and               *)
(* KeyboardNavigation, and the intersection observer of SlideManager with  *)
(* the stagger timers of its callback.  The anchor links and the ripple    *)
(* effect touch none of this state and are left out.                       *)
(*                                                                         *)
(* Spec is the page with every optional element and slides without         *)
(* children; SpecOptional takes any subset of the optional elements away;  *)
(* SpecReveal adds the observer and its timers; SpecConverge lets every    *)
(* smooth scroll run to its end before the next navigation.                *)
(***************************************************************************)
EXTENDS Integers, Sequences, FiniteSets

(* ---------------------------- bounds ---------------------------------- *)
Grid == 50          \* pixel distance between two modelled scroll offsets
MaxSlides == 3      \* at most this many .slide elements
MaxHeight == 2      \* slide height and viewport height: 1..MaxHeight grid steps
MaxPending == 2     \* scroll events delivered between two animation frames
MaxKids == 2        \* at most this many children in a slide's .slide-content
Gaps == {0, 1}      \* space around and between slides, in grid steps

VARIABLES
    slides,            \* this.slides: sequence of [offsetTop, offsetHeight]
    innerHeight,       \* window.innerHeight
    scrollHeight,      \* document.documentElement.scrollHeight
    dom,               \* which optional elements the page holds
    pageYOffset,       \* window.pageYOffset
    smoothTarget,      \* destination of the running smooth scroll, or NoTarget
    rafPending,        \* scroll events whose frame callbacks are queued
    currentSlide,      \* SlideManager.currentSlide (1-based)
    counterText,       \* textContent of .current-slide
    progressWidth,     \* style.width of .scroll-progress, as a percentage
    lastScroll,        \* HeaderManager.lastScroll
    headerBackground,  \* header.style.background
    headerTransform,   \* header.style.transform
    upDisabled,        \* upButton.disabled
    downDisabled,      \* downButton.disabled
    lastOp,            \* the handler that ran last
    effects,           \* the scrollIntoView calls and counter writes it made
    passes,            \* how often it ran the frame callbacks
    kids,              \* per slide, the number of '.slide-content > *' children
    visible,           \* per slide, whether its classList holds 'visible'
    revealed,          \* per slide, the children with opacity 1, translateY(0)
    timers,            \* the pending setTimeout callbacks of the observer
    reported,          \* per slide, intersecting reports so far: 0, 1, 2 = more
    trip               \* the navigateDown / navigateUp round trip under way

layoutVars == <<slides, innerHeight, scrollHeight, dom>>
managerVars == <<currentSlide, counterText, progressWidth>>
headerVars == <<lastScroll, headerBackground, headerTransform>>
buttonVars == <<upDisabled, downDisabled>>
observerVars == <<kids, visible, revealed, timers, reported>>
vars == <<slides, innerHeight, scrollHeight, dom, pageYOffset, smoothTarget,
          rafPending, currentSlide, counterText, progressWidth, lastScroll,
          headerBackground, headerTransform, upDisabled, downDisabled,
          lastOp, effects, passes, kids, visible, revealed, timers,
          reported, trip>>

(* ------------------------- JavaScript numbers -------------------------- *)
\* A number is NaN, an infinity, or an exact fraction num/den with den > 0.
NaN == [kind |-> "NaN", num |-> 0, den |-> 1]
PosInfinity == [kind |-> "Infinity", num |-> 1, den |-> 1]
NegInfinity == [kind |-> "-Infinity", num |-> -1, den |-> 1]
Num(n, d) == [kind |-> "number", num |-> n, den |-> d]
Unset == [kind |-> "unset", num |-> 0, den |-> 1]

\* a / b for integers a, b
JSDivide(a, b) ==
    IF b = 0
    THEN IF a = 0 THEN NaN ELSE IF a > 0 THEN PosInfinity ELSE NegInfinity
    ELSE IF b > 0 THEN Num(a, b) ELSE Num(-a, -b)

\* p * k for a positive integer k
JSTimes(p, k) ==
    IF p.kind = "number" THEN Num(p.num * k, p.den) ELSE p

\* Math.min(p, k) for an integer k
MathMin(p, k) ==
    CASE p.kind = "NaN" -> NaN
      [] p.kind = "Infinity" -> Num(k, 1)
      [] p.kind = "-Infinity" -> NegInfinity
      [] OTHER -> IF p.num <= k * p.den THEN p ELSE Num(k, 1)

Min(a, b) == IF a <= b THEN a ELSE b
Max(a, b) == IF a >= b THEN a ELSE b

(* ------------------------------ layout --------------------------------- *)
NoTarget == -1      \* no smooth scroll is running
NotWritten == 0     \* .current-slide still shows the page's own text
NoTrip == [start |-> -1, phase |-> "none"]

AllPresent == [scrollProgress |-> TRUE, currentSlideElement |-> TRUE,
               header |-> TRUE, upButton |-> TRUE, downButton |-> TRUE]

\* n slides of height h stacked in document order, the first at margin,
\* consecutive ones gap apart (all in grid steps).
StackedSlides(n, h, margin, gap) ==
    [i \in 1..n |-> [offsetTop |-> Grid * (margin + (i - 1) * (h + gap)),
                     offsetHeight |-> Grid * h]]

ContentHeight(n, h, margin, gap) ==
    IF n = 0 THEN Grid * 2 * margin
    ELSE Grid * (2 * margin + n * h + (n - 1) * gap)

N == Len(slides)
MaxScroll == scrollHeight - innerHeight
Offsets == {Grid * j : j \in 0..(MaxScroll \div Grid)}

(* --------------------------- SlideManager ------------------------------ *)
\* window.pageYOffset + window.innerHeight * 0.5, doubled
ScrollPosition2 == 2 * pageYOffset + innerHeight

\* the width updateScrollProgress leaves on the bar, which showed width
updateScrollProgress(scrollTop, width) ==
    IF dom.scrollProgress
    THEN MathMin(JSTimes(JSDivide(scrollTop, scrollHeight - innerHeight), 100), 100)
    ELSE width

\* the records kept in effects
ScrollIntoView(slideIndex) == [call |-> "scrollIntoView", arg |-> slideIndex]
SetCounter(value) == [call |-> "textContent", arg |-> value]
TypeError == [call |-> "TypeError", arg |-> 0]

\* the counter text after updateSlideCounter, currentSlide being cur
updateSlideCounter(cur, text) ==
    IF dom.currentSlideElement THEN cur ELSE text

\* the writes updateSlideCounter makes
CounterWrites(cur) ==
    IF dom.currentSlideElement THEN <<SetCounter(cur)>> ELSE <<>>

\* Mutant: the counter is written on every match, changed index or not.
RECURSIVE ScanSlides_alwaysWrite(_, _, _)
ScanSlides_alwaysWrite(i, sp2, st) ==
    IF i > N THEN st
    ELSE LET slideTop == slides[i].offsetTop
             slideBottom == slideTop + slides[i].offsetHeight
         IN ScanSlides_alwaysWrite(i + 1, sp2,
                IF sp2 >= 2 * slideTop /\ sp2 < 2 * slideBottom
                THEN [currentSlide |-> i,
                      counterText |-> updateSlideCounter(i, st.counterText),
                      writes |-> st.writes \o CounterWrites(i)]
                ELSE st)

\* Mutant: a scan that matches no slide falls back to the first slide, the
\* way getCurrentSlideIndex does.
RECURSIVE ScanSlides_defaultFirst(_, _, _)
ScanSlides_defaultFirst(i, sp2, st) ==
    IF i > N
    THEN IF \E k \in 1..N : sp2 >= 2 * slides[k].offsetTop
                            /\ sp2 < 2 * (slides[k].offsetTop + slides[k].offsetHeight)
         THEN st
         ELSE [currentSlide |-> 1,
               counterText |-> updateSlideCounter(1, st.counterText),
               writes |-> st.writes]
    ELSE LET slideTop == slides[i].offsetTop
             slideBottom == slideTop + slides[i].offsetHeight
         IN ScanSlides_defaultFirst(i + 1, sp2,
                IF sp2 >= 2 * slideTop /\ sp2 < 2 * slideBottom /\ i # st.currentSlide
                THEN [currentSlide |-> i,
                      counterText |-> updateSlideCounter(i, st.counterText),
                      writes |-> st.writes \o CounterWrites(i)]
                ELSE st)

\* the forEach of updateCurrentSlide from slide i on; st holds currentSlide,
\* the counter text and the counter writes made so far
RECURSIVE ScanSlides(_, _, _)
ScanSlides(i, sp2, st) ==
    IF i > N THEN st
    ELSE LET slideTop == slides[i].offsetTop
             slideBottom == slideTop + slides[i].offsetHeight
             newSlide == i     \* index + 1, the sequence being 1-based
         IN ScanSlides(i + 1, sp2,
                IF sp2 >= 2 * slideTop /\ sp2 < 2 * slideBottom
                   /\ newSlide # st.currentSlide
                THEN [currentSlide |-> newSlide,
                      counterText |-> updateSlideCounter(newSlide, st.counterText),
                      writes |-> st.writes \o CounterWrites(newSlide)]
                ELSE st)

updateCurrentSlide(sp2, cur, text) ==
    ScanSlides(1, sp2, [currentSlide |-> cur, counterText |-> text, writes |-> <<>>])

\* Mutant: a focus point exactly on a slide's top is not in that slide.
RECURSIVE ScanIndex_strictTop(_, _, _)
ScanIndex_strictTop(i, sp2, currentIndex) ==
    IF i > N THEN currentIndex
    ELSE LET slideTop == slides[i].offsetTop
             slideBottom == slideTop + slides[i].offsetHeight
         IN ScanIndex_strictTop(i + 1, sp2,
                IF sp2 > 2 * slideTop /\ sp2 < 2 * slideBottom
                THEN i - 1 ELSE currentIndex)

\* Mutant: a focus point exactly on a slide's bottom edge is in that slide.
RECURSIVE ScanIndex_closedBottom(_, _, _)
ScanIndex_closedBottom(i, sp2, currentIndex) ==
    IF i > N THEN currentIndex
    ELSE LET slideTop == slides[i].offsetTop
             slideBottom == slideTop + slides[i].offsetHeight
         IN ScanIndex_closedBottom(i + 1, sp2,
                IF sp2 >= 2 * slideTop /\ sp2 <= 2 * slideBottom
                THEN i - 1 ELSE currentIndex)

\* the forEach of getCurrentSlideIndex from slide i on
RECURSIVE ScanIndex(_, _, _)
ScanIndex(i, sp2, currentIndex) ==
    IF i > N THEN currentIndex
    ELSE LET slideTop == slides[i].offsetTop
             slideBottom == slideTop + slides[i].offsetHeight
         IN ScanIndex(i + 1, sp2,
                IF sp2 >= 2 * slideTop /\ sp2 < 2 * slideBottom
                THEN i - 1 ELSE currentIndex)

\* zero-based index of the slide holding the focus point, 0 when none does
getCurrentSlideIndex == ScanIndex(1, ScrollPosition2, 0)

\* Mutant: an index out of range is clamped to the nearest slide.
goToSlide_clamped(slideIndex) ==
    IF N = 0 THEN <<>> ELSE <<ScrollIntoView(Max(0, Min(slideIndex, N - 1)))>>

\* Mutant: only the upper end of the range is tested.
goToSlide_noLowerBound(slideIndex) ==
    IF slideIndex < N THEN <<ScrollIntoView(slideIndex)>> ELSE <<>>

\* the scrollIntoView calls goToSlide(slideIndex) makes
goToSlide(slideIndex) ==
    IF slideIndex >= 0 /\ slideIndex < N
    THEN <<ScrollIntoView(slideIndex)>> ELSE <<>>

\* The browser's answer to scrollIntoView({behavior: 'smooth', block: 'start'})
\* calls: it animates towards the top of the slide named last.
RequestScroll(calls) ==
    IF calls = <<>> THEN smoothTarget
    ELSE IF calls[Len(calls)].arg + 1 \notin 1..N
    THEN smoothTarget    \* slides[i] is undefined: the call throws
    ELSE LET top == slides[calls[Len(calls)].arg + 1].offsetTop
         IN IF Min(top, MaxScroll) = pageYOffset THEN NoTarget ELSE top

(* ----------------------- intersection observer ------------------------- *)
StaggerMs == 100    \* the delay between two children of a slide
TickMs == StaggerMs \div 2     \* the step in which time is seen to pass

\* Mutant: the class follows the report (classList.toggle with a force).
VisibleAfter_follows(flag, isIntersecting) == isIntersecting

\* Mutant: an intersecting report toggles the class.
VisibleAfter_toggles(flag, isIntersecting) ==
    IF isIntersecting THEN ~flag ELSE flag

\* whether the slide's classList holds 'visible' after an entry was handled
VisibleAfter(flag, isIntersecting) ==
    IF isIntersecting THEN TRUE ELSE flag

\* Mutant: every child waits one stagger step, whatever its position.
StaggerDelay_flat(index) == StaggerMs

\* the delay handed to setTimeout for the child at position index
StaggerDelay(index) == index * StaggerMs

\* the positions of slide s's children
KidsOf(s) == 0..(kids[s] - 1)

\* A pending timer is the slide and position of the child it reveals and
\* the time left until it is due.  Two timers for one child that are due at
\* the same time do the same thing and are kept as one.
Timer(s, i, d) == [slide |-> s, child |-> i, delay |-> d]
TimersOf(s) == {t \in timers : t.slide = s}

\* the setTimeout calls of children.forEach for slide s
ScheduledTimers(s) == {Timer(s, i, StaggerDelay(i)) : i \in KidsOf(s)}

(* --------------------------- HeaderManager ----------------------------- *)
\* Mutant: the backdrop turns opaque at 100px already.
HeaderBackground_atLeast(currentScroll) ==
    IF currentScroll >= 100 THEN "opaque" ELSE "translucent"

\* rgba(255, 255, 255, 0.98) with a shadow is "opaque", 0.95 without "translucent"
HeaderBackground(currentScroll) ==
    IF currentScroll > 100 THEN "opaque" ELSE "translucent"

\* Mutant: the header hides at 200px already.
HeaderTransform_atLeast(currentScroll, last) ==
    IF currentScroll > last /\ currentScroll >= 200 THEN "hidden" ELSE "visible"

\* translateY(-100%) is "hidden", translateY(0) "visible"
HeaderTransform(currentScroll, last) ==
    IF currentScroll > last /\ currentScroll > 200 THEN "hidden" ELSE "visible"

\* HeaderManager.handleScroll, registered only when the header exists
handleScroll(currentScroll) ==
    IF dom.header
    THEN /\ headerBackground' = HeaderBackground(currentScroll)
         /\ headerTransform' = HeaderTransform(currentScroll, lastScroll)
         /\ lastScroll' = currentScroll
    ELSE UNCHANGED headerVars

(* -------------------------- SlideNavigation ---------------------------- *)
\* Mutant: one button is enough for init to go on.
ButtonsWired_either == dom.upButton \/ dom.downButton

\* both buttons must exist for init to register anything
ButtonsWired == dom.upButton /\ dom.downButton

\* upButton.disabled after updateButtonStates
UpDisabled(currentIndex) == currentIndex = 0

\* Mutant: the down button is disabled one slide too late.
DownDisabled_pastEnd(currentIndex, totalSlides) == currentIndex = totalSlides

\* downButton.disabled after updateButtonStates
DownDisabled(currentIndex, totalSlides) == currentIndex = totalSlides - 1

\* updateButtonStates dereferences both buttons without a test
ButtonErrors ==
    IF dom.upButton /\ dom.downButton THEN <<>> ELSE <<TypeError>>

\* Mutant: the step up skips a slide.
NavigateUpTarget_twoBack(currentIndex) == Max(currentIndex - 2, 0)

\* targetIndex of navigateUp
NavigateUpTarget(currentIndex) == Max(currentIndex - 1, 0)

\* Mutant: the step down is not clamped to the last slide.
NavigateDownTarget_noClamp(currentIndex, totalSlides) == currentIndex + 1

\* targetIndex of navigateDown
NavigateDownTarget(currentIndex, totalSlides) ==
    Min(currentIndex + 1, totalSlides - 1)

(* ------------------------ KeyboardNavigation --------------------------- *)
Keys == {"ArrowDown", "PageDown", "ArrowUp", "PageUp", "Home", "End", "a"}
NavigationKeys == Keys \ {"a"}

\* the targetIndex handleKeydown computes for a navigation key
KeyTarget(key, currentIndex, totalSlides) ==
    CASE key \in {"ArrowDown", "PageDown"} -> Min(currentIndex + 1, totalSlides - 1)
      [] key \in {"ArrowUp", "PageUp"} -> Max(currentIndex - 1, 0)
      [] key = "Home" -> 0
      [] key = "End" -> totalSlides - 1

(* ----------------------------- Init ------------------------------------ *)
\* DOMContentLoaded: the five constructors run in order on a page at the top.
InitWith(n, h, margin, gap, v, d) ==
    /\ slides = StackedSlides(n, h, margin, gap)
    /\ innerHeight = Grid * v
    /\ scrollHeight = Max(ContentHeight(n, h, margin, gap), Grid * v)
    /\ dom = d
    /\ pageYOffset = 0
    /\ smoothTarget = NoTarget
    /\ rafPending = 0
    /\ progressWidth = updateScrollProgress(0, Unset)
    /\ LET st == updateCurrentSlide(ScrollPosition2, 1, NotWritten)
       IN /\ currentSlide = st.currentSlide
          /\ counterText = st.counterText
          /\ effects = st.writes \o (IF ButtonsWired THEN ButtonErrors ELSE <<>>)
    /\ lastScroll = 0
    /\ headerBackground = "css"
    /\ headerTransform = "css"
    /\ upDisabled = (ButtonsWired /\ dom.upButton
                      /\ UpDisabled(getCurrentSlideIndex))
    /\ downDisabled = (ButtonsWired /\ dom.upButton /\ dom.downButton
                        /\ DownDisabled(getCurrentSlideIndex, N))
    /\ lastOp = "init"
    /\ passes = 1
    /\ trip = NoTrip

\* The observer has reported nothing yet: no slide is visible, no child is
\* revealed, no timer is pending.  Slide k has counts[k] children.
ObserverInit(counts) ==
    /\ kids = counts
    /\ visible = [k \in 1..N |-> FALSE]
    /\ revealed = [k \in 1..N |-> {}]
    /\ timers = {}
    /\ reported = [k \in 1..N |-> 0]

NoKids == [k \in 1..N |-> 0]

\* Every optional element is present; the slides either fill the page or
\* have the same space above, between and below them.
Init ==
    \E n \in 0..MaxSlides, h \in 1..MaxHeight, gap \in Gaps, v \in 1..MaxHeight :
        InitWith(n, h, gap, gap, v, AllPresent) /\ ObserverInit(NoKids)

\* Any of the five optional elements may be missing from the page, which
\* has no slide or two.  The slides are two grid steps high and one apart
\* under a viewport of one, so that every header and button state can be
\* reached.
Doms == [{"scrollProgress", "currentSlideElement", "header", "upButton",
          "downButton"} -> BOOLEAN]

InitOptional ==
    \E n \in {0, 2}, d \in Doms :
        InitWith(n, 2, 1, 1, 1, d) /\ ObserverInit(NoKids)

(* ---------------------------- actions ---------------------------------- *)
\* One scroll event at offset o: SlideManager's listener queues a frame
\* callback, handleScroll runs, SlideNavigation's listener queues another.
DispatchScroll(o) ==
    /\ rafPending < MaxPending
    /\ pageYOffset' = o
    /\ rafPending' = rafPending + 1
    /\ handleScroll(o)
    /\ effects' = <<>>
    /\ passes' = 0
    /\ UNCHANGED <<layoutVars, managerVars, buttonVars, observerVars, trip>>

\* The user scrolls (wheel, touch, scrollbar) by one grid step to offset o,
\* which stops a running smooth scroll.  An event may also report the offset
\* the page already had (it moved away and back within one frame).
UserScroll(o) ==
    /\ o \in Offsets
    /\ DispatchScroll(o)
    /\ smoothTarget' = NoTarget
    /\ lastOp' = "scroll"

\* The running smooth scroll moves the page one grid step towards its
\* destination, the slide's top or the end of the document if that is nearer.
SmoothScrollStep ==
    /\ smoothTarget # NoTarget
    /\ LET dest == Min(smoothTarget, MaxScroll)
           o == IF pageYOffset < dest THEN pageYOffset + Grid
                ELSE pageYOffset - Grid
       IN /\ o \in Offsets
          /\ smoothTarget' = IF o = dest THEN NoTarget ELSE smoothTarget
          /\ DispatchScroll(o)
    /\ lastOp' = "smoothScroll"

\* An animation frame runs every queued callback: updateScrollProgress and
\* updateCurrentSlide, then updateButtonStates, once for each scroll event
\* since the frame before.  The scroll state is the same for each run, so
\* rafPending runs leave what one run does.
AnimationFrame ==
    /\ rafPending > 0
    /\ rafPending' = 0
    /\ progressWidth' = updateScrollProgress(pageYOffset, progressWidth)
    /\ LET st == updateCurrentSlide(ScrollPosition2, currentSlide, counterText)
       IN /\ currentSlide' = st.currentSlide
          /\ counterText' = st.counterText
          /\ effects' = st.writes \o (IF ButtonsWired THEN ButtonErrors ELSE <<>>)
    /\ IF ButtonsWired
       THEN /\ upDisabled' = IF dom.upButton
                             THEN UpDisabled(getCurrentSlideIndex)
                             ELSE upDisabled
            /\ downDisabled' = IF dom.upButton /\ dom.downButton
                               THEN DownDisabled(getCurrentSlideIndex, N)
                               ELSE downDisabled
       ELSE UNCHANGED buttonVars
    /\ lastOp' = "frame"
    /\ passes' = rafPending
    /\ UNCHANGED <<layoutVars, pageYOffset, smoothTarget, headerVars,
                   observerVars, trip>>

\* Mutant: the handler also sets currentSlide to the slide it asks for.
Navigate_writesIndex(op, calls) ==
    /\ effects' = calls
    /\ smoothTarget' = RequestScroll(calls)
    /\ lastOp' = op
    /\ passes' = 0
    /\ currentSlide' = IF calls = <<>> THEN currentSlide
                       ELSE calls[Len(calls)].arg + 1
    /\ UNCHANGED <<layoutVars, pageYOffset, rafPending, counterText,
                   progressWidth, headerVars, buttonVars, observerVars>>

\* what every navigation handler changes: the calls it made and the smooth
\* scroll the browser starts for them
Navigate(op, calls) ==
    /\ effects' = calls
    /\ smoothTarget' = RequestScroll(calls)
    /\ lastOp' = op
    /\ passes' = 0
    /\ UNCHANGED <<layoutVars, pageYOffset, rafPending, managerVars,
                   headerVars, buttonVars, observerVars>>

GoToSlide(slideIndex) ==
    /\ Navigate("goToSlide", goToSlide(slideIndex))
    /\ UNCHANGED trip

\* The click listeners exist only when both buttons do.  A click is taken
\* whatever the button's disabled state: nothing here relies on the browser
\* withholding clicks from a disabled control.
NavigateUp ==
    /\ ButtonsWired
    /\ Navigate("navigateUp", goToSlide(NavigateUpTarget(getCurrentSlideIndex)))
    /\ UNCHANGED trip

NavigateDown ==
    /\ ButtonsWired
    /\ Navigate("navigateDown",
                goToSlide(NavigateDownTarget(getCurrentSlideIndex, N)))
    /\ UNCHANGED trip

Keydown(key) ==
    /\ IF key \in NavigationKeys
       THEN Navigate("keydown", goToSlide(KeyTarget(key, getCurrentSlideIndex, N)))
       ELSE /\ effects' = <<>>
            /\ lastOp' = "keydown"
            /\ passes' = 0
            /\ UNCHANGED <<layoutVars, pageYOffset, smoothTarget, rafPending,
                           managerVars, headerVars, buttonVars, observerVars>>
    /\ UNCHANGED trip

\* no smooth scroll is running and every scroll event has had its frame
Settled == smoothTarget = NoTarget /\ rafPending = 0

\* The navigation of a user who waits for the page to come to rest before
\* the next click.  trip follows a navigateDown click and the navigateUp
\* click after it: the index the first started from, and how far the round
\* trip has come.
PressGoTo(slideIndex) ==
    /\ Settled
    /\ Navigate("goToSlide", goToSlide(slideIndex))
    /\ trip' = NoTrip

PressDown ==
    /\ Settled
    /\ ButtonsWired
    /\ Navigate("navigateDown",
                goToSlide(NavigateDownTarget(getCurrentSlideIndex, N)))
    /\ trip' = [start |-> getCurrentSlideIndex, phase |-> "down"]

PressUp ==
    /\ Settled
    /\ ButtonsWired
    /\ Navigate("navigateUp", goToSlide(NavigateUpTarget(getCurrentSlideIndex)))
    /\ trip' = IF trip.phase = "down"
               THEN [trip EXCEPT !.phase = "up"] ELSE NoTrip

\* The observer's callback handles one entry, for slide s: an intersecting
\* slide gets the class and one timer per child, a slide that is not
\* intersecting is left alone.  The browser may report any slide at any time.
ObserverCallback(s, isIntersecting) ==
    /\ s \in 1..N
    /\ visible' = [visible EXCEPT ![s] = VisibleAfter(@, isIntersecting)]
    /\ timers' = IF isIntersecting THEN timers \cup ScheduledTimers(s) ELSE timers
    /\ reported' = IF isIntersecting
                   THEN [reported EXCEPT ![s] = Min(@ + 1, 2)]
                   ELSE reported
    /\ lastOp' = "observer"
    /\ effects' = <<>>
    /\ passes' = 0
    /\ UNCHANGED <<layoutVars, pageYOffset, smoothTarget, rafPending,
                   managerVars, headerVars, buttonVars, kids, revealed, trip>>

\* A timer that is due runs its callback, which reveals its child.
TimerFire(t) ==
    /\ t \in timers
    /\ t.delay = 0
    /\ timers' = timers \ {t}
    /\ revealed' = [revealed EXCEPT ![t.slide] = @ \cup {t.child}]
    /\ lastOp' = "timer"
    /\ effects' = <<>>
    /\ passes' = 0
    /\ UNCHANGED <<layoutVars, pageYOffset, smoothTarget, rafPending,
                   managerVars, headerVars, buttonVars, kids, visible,
                   reported, trip>>

\* Time passes while timers wait: TickMs go by once every timer that is due
\* has run.
Tick ==
    /\ timers # {}
    /\ \A t \in timers : t.delay > 0
    /\ timers' = {Timer(t.slide, t.child, t.delay - TickMs) : t \in timers}
    /\ UNCHANGED <<layoutVars, pageYOffset, smoothTarget, rafPending,
                   managerVars, headerVars, buttonVars, kids, visible,
                   revealed, reported, trip, lastOp, effects, passes>>

Next ==
    \/ \E o \in {pageYOffset - Grid, pageYOffset, pageYOffset + Grid} : UserScroll(o)
    \/ SmoothScrollStep
    \/ AnimationFrame
    \/ \E i \in -1..(N + 1) : GoToSlide(i)
    \/ NavigateUp
    \/ NavigateDown
    \/ \E key \in Keys : Keydown(key)

Spec == Init /\ [][Next]_vars

\* Two slides fill the page under a viewport as high as one of them; the
\* first has up to MaxKids children, the second none.
InitReveal ==
    \E c \in 0..MaxKids :
        InitWith(2, 1, 0, 0, 1, AllPresent) /\ ObserverInit(<<c, 0>>)

NextReveal ==
    \/ Next
    \/ \E s \in 1..N, isIntersecting \in BOOLEAN : ObserverCallback(s, isIntersecting)
    \/ \E t \in timers : TimerFire(t)
    \/ Tick

\* the page with its observer and the timers of the observer's callback
SpecReveal == InitReveal /\ [][NextReveal]_vars

\* One slide twice as high as the viewport, with up to MaxKids children.
InitStagger ==
    \E c \in 0..MaxKids :
        InitWith(1, 2, 0, 0, 1, AllPresent) /\ ObserverInit(<<c>>)

\* every timer that page can hold
AllTimers ==
    {Timer(1, i, TickMs * d) : i \in 0..(MaxKids - 1),
                               d \in 0..(2 * (MaxKids - 1))}

\* The browser runs every timer that is due, and time does not stop for
\* ever.
SpecStagger ==
    /\ InitStagger
    /\ [][NextReveal]_vars
    /\ \A t \in AllTimers : WF_vars(TimerFire(t))
    /\ SF_vars(Tick)

\* At least one slide; the slides fill the page and none is lower than the
\* viewport, so the page can scroll to the top of each and the focus point
\* of a slide's top lies in that slide.
InitConverge ==
    \E n \in 1..MaxSlides, h \in 1..MaxHeight, v \in 1..MaxHeight :
        /\ v <= h
        /\ InitWith(n, h, 0, 0, v, AllPresent)
        /\ ObserverInit(NoKids)

NextConverge ==
    \/ SmoothScrollStep
    \/ AnimationFrame
    \/ \E i \in 0..(N - 1) : PressGoTo(i)
    \/ PressDown
    \/ PressUp

\* Nothing but the page's own navigation moves the page; the browser keeps
\* a smooth scroll going and keeps running frames.
SpecConverge ==
    /\ InitConverge
    /\ [][NextConverge]_vars
    /\ WF_vars(SmoothScrollStep)
    /\ WF_vars(AnimationFrame)

\* the same handlers on pages that lack some optional elements
SpecOptional == InitOptional /\ [][Next]_vars

(* ======================= properties of the code ======================== *)
\* the focus point lies in slide k's half-open range [top, top + height)
FocusInSlide(k) ==
    /\ 2 * slides[k].offsetTop <= 2 * pageYOffset + innerHeight
    /\ 2 * pageYOffset + innerHeight
         < 2 * (slides[k].offsetTop + slides[k].offsetHeight)

NoSlideHoldsFocus == \A k \in 1..N : ~FocusInSlide(k)

\* the state is the one a pass of the frame callbacks (or of init) left
AfterPass == lastOp \in {"init", "frame"}

\* C1: whenever the focus point lies in slide k's range [top_k, top_k +
\* height_k), getCurrentSlideIndex() returns k and a pass of
\* updateCurrentSlide() leaves currentSlide = k + 1 (slides are counted from
\* 1 here, so the index is k - 1 and currentSlide is k); a focus point exactly
\* on the top of the next slide belongs to that next slide.
C1_FocusSlideIsIndex ==
    \A k \in 1..N :
        FocusInSlide(k) =>
            /\ getCurrentSlideIndex = k - 1
            /\ AfterPass => currentSlide = k

\* C1 witness: a pass ran with the focus point exactly on the edge shared by
\* slide k - 1 and slide k, and reported slide k.
C1_Witness ==
    \E k \in 2..N :
        /\ lastOp = "frame"
        /\ 2 * pageYOffset + innerHeight = 2 * slides[k].offsetTop
        /\ slides[k - 1].offsetTop + slides[k - 1].offsetHeight = slides[k].offsetTop
        /\ currentSlide = k
        /\ getCurrentSlideIndex = k - 1

\* C2: goToSlide(i) with i < 0 or i >= N issues no smooth-scroll request and
\* changes no state; with 0 <= i < N it issues exactly one request, for slide
\* i's top edge, and writes nothing else.
C2_GoToSlideGuard ==
    [][lastOp' = "goToSlide" => \A i \in -1..(N + 1) :
          GoToSlide(i) =>
             /\ UNCHANGED <<pageYOffset, rafPending, managerVars, headerVars,
                            buttonVars, layoutVars>>
             /\ IF 0 <= i /\ i < N
                THEN /\ effects' = <<ScrollIntoView(i)>>
                     /\ smoothTarget' =
                          IF Min(slides[i + 1].offsetTop, MaxScroll) = pageYOffset
                          THEN NoTarget ELSE slides[i + 1].offsetTop
                ELSE /\ effects' = <<>>
                     /\ smoothTarget' = smoothTarget]_vars

\* C2 witness: goToSlide ran with an index out of range on a page that has
\* slides and a smooth scroll under way, and asked for nothing.
C2_Witness ==
    /\ lastOp = "goToSlide"
    /\ effects = <<>>
    /\ N >= 1
    /\ smoothTarget # NoTarget

\* C3: with N >= 1 slides every request of navigateUp, navigateDown and the
\* navigation keys names a slide in 0..N-1; navigateDown from index i asks
\* for min(i + 1, N - 1) and navigateUp for max(i - 1, 0).
C3_NavigationInRange ==
    /\ [](N >= 1 /\ lastOp \in {"navigateUp", "navigateDown", "keydown"}
            => \A j \in 1..Len(effects) :
                  /\ effects[j].call = "scrollIntoView"
                  /\ effects[j].arg \in 0..(N - 1))
    /\ [](N >= 1 /\ lastOp \in {"navigateUp", "navigateDown"}
            => Len(effects) = 1)
    /\ [][N >= 1 /\ lastOp' = "navigateDown" /\ NavigateDown
            => \E i \in 0..(N - 1) :
                  /\ i = getCurrentSlideIndex
                  /\ effects' = <<ScrollIntoView(IF i + 1 <= N - 1
                                               THEN i + 1 ELSE N - 1)>>]_vars
    /\ [][N >= 1 /\ lastOp' = "navigateUp" /\ NavigateUp
            => \E i \in 0..(N - 1) :
                  /\ i = getCurrentSlideIndex
                  /\ effects' = <<ScrollIntoView(IF i - 1 >= 0 THEN i - 1 ELSE 0)>>]_vars

\* C3 witness: navigateDown was pressed on the last of several slides and
\* asked for that same last slide.
C3_Witness ==
    /\ lastOp = "navigateDown"
    /\ N >= 2
    /\ getCurrentSlideIndex = N - 1
    /\ effects = <<ScrollIntoView(N - 1)>>

\* p <= q as JavaScript compares numbers: false when either is NaN
JSLessOrEqual(p, q) ==
    /\ p.kind # "NaN" /\ q.kind # "NaN"
    /\ \/ p.kind = "-Infinity"
       \/ q.kind = "Infinity"
       \/ /\ p.kind = "number" /\ q.kind = "number"
          /\ p.num * q.den <= q.num * p.den

\* C4: the width updateScrollProgress writes is a number in [0, 100]:
\* never negative, never above 100, never NaN.
C4_ProgressInRange ==
    dom.scrollProgress =>
        /\ progressWidth.kind = "number"
        /\ 0 <= progressWidth.num
        /\ progressWidth.num <= 100 * progressWidth.den

\* C5: when the document is not scrollable (scrollHeight - innerHeight <= 0)
\* updateScrollProgress reports exactly 0.
C5_NotScrollableIsZero ==
    (dom.scrollProgress /\ scrollHeight - innerHeight <= 0) =>
        /\ progressWidth.kind = "number"
        /\ progressWidth.num = 0

\* C6: for the page's document and viewport heights, the percentage of
\* updateScrollProgress does not decrease with the scroll offset.
C6_ProgressMonotone ==
    \A a \in Offsets, b \in Offsets :
        a <= b => JSLessOrEqual(updateScrollProgress(a, progressWidth),
                             updateScrollProgress(b, progressWidth))

\* N >= 3 slides of one height H fill the page from its top, the viewport is
\* H high and the page is scrolled to 2H
EqualSlidesAtThird ==
    /\ N >= 3
    /\ \A k \in 1..N : /\ slides[k].offsetHeight = innerHeight
                       /\ slides[k].offsetTop = (k - 1) * innerHeight
    /\ pageYOffset = 2 * innerHeight

\* C7: a pass of updateCurrentSlide writes the counter only when the slide
\* it computes differs from currentSlide, and then writes index + 1; so a
\* counter that was ever written shows currentSlide.  With equal slides of
\* height H, a viewport of H and offset 2H the counter shows 3.
C7_CounterFollowsIndex ==
    /\ [](counterText # NotWritten => counterText = currentSlide)
    /\ [](EqualSlidesAtThird /\ AfterPass => currentSlide = 3 /\ counterText = 3)
    /\ [][lastOp' = "frame" /\ AnimationFrame =>
            IF currentSlide' # currentSlide
            THEN /\ effects' = <<SetCounter(currentSlide')>>
                 /\ counterText' = currentSlide'
            ELSE /\ effects' = <<>>
                 /\ counterText' = counterText]_vars

\* C7 witness: the frame after scrolling to 2H wrote 3 to the counter.
C7_Witness ==
    /\ EqualSlidesAtThird
    /\ lastOp = "frame"
    /\ effects = <<SetCounter(3)>>
    /\ counterText = 3

\* C8: a pass that finds the focus point in no slide leaves currentSlide and
\* the counter as they were, pass after pass.
C8_NoMatchKeepsIndex ==
    [][lastOp' = "frame" /\ AnimationFrame /\ NoSlideHoldsFocus
         => /\ currentSlide' = currentSlide
            /\ counterText' = counterText
            /\ effects' = <<>>]_vars

\* C8 witness: a pass ran with the focus point between or beyond the slides
\* while currentSlide still named a slide other than the first.
C8_Witness ==
    /\ lastOp = "frame"
    /\ NoSlideHoldsFocus
    /\ currentSlide >= 2
    /\ counterText = currentSlide

\* a scroll event was delivered
ScrollEvent ==
    /\ lastOp' \in {"scroll", "smoothScroll"}
    /\ UserScroll(pageYOffset') \/ SmoothScrollStep

\* C9: after handleScroll the header is hidden exactly when the offset is
\* above the one recorded by the previous evaluation and above 200, visible
\* otherwise (so after every upward or equal-offset scroll), and the
\* recorded offset is the current one.
C9_HeaderReveal ==
    [][(dom.header /\ ScrollEvent)
         => /\ headerTransform' \in {"hidden", "visible"}
            /\ headerTransform' = "hidden"
                  <=> (pageYOffset' > lastScroll /\ pageYOffset' > 200)
            /\ pageYOffset' <= pageYOffset => headerTransform' = "visible"
            /\ lastScroll' = pageYOffset']_vars

\* C9 witness: a downward scroll past 200 has hidden the header.
C9_Witness ==
    /\ lastOp = "scroll"
    /\ headerTransform = "hidden"
    /\ pageYOffset > 200
    /\ lastScroll = pageYOffset

\* C10: once handleScroll has run, the backdrop is opaque exactly when the
\* offset is above 100, whatever the direction and the reveal state.
C10_HeaderBackdrop ==
    /\ (dom.header /\ lastOp \in {"scroll", "smoothScroll"})
          => headerBackground \in {"opaque", "translucent"}
    /\ headerBackground # "css"
          => (headerBackground = "opaque" <=> pageYOffset > 100)

\* C10 witness: the backdrop is opaque while the header is revealed, after
\* an upward scroll that stayed above 100.
C10_Witness ==
    /\ lastOp = "scroll"
    /\ headerBackground = "opaque"
    /\ headerTransform = "visible"
    /\ pageYOffset > 200

\* C11: k > 1 scroll events between two frames are coalesced: the frame that
\* follows runs updateScrollProgress, updateCurrentSlide and
\* updateButtonStates exactly once, not k times.
C11_OncePerFrame ==
    lastOp = "frame" => passes = 1

\* the index a scan of the slides should give: that of the slide holding the
\* focus point (the slides do not overlap), 0 when none does
FocusIndex ==
    IF NoSlideHoldsFocus THEN 0
    ELSE (CHOOSE k \in 1..N : FocusInSlide(k)) - 1

\* C12: after every pass of updateButtonStates (at init and in every scroll
\* frame), whatever the number of slides, the up button is disabled exactly
\* when the current index is 0 and the down button exactly when it is N - 1;
\* away from the boundaries both are enabled.
C12_ButtonStates ==
    (ButtonsWired /\ AfterPass) =>
        /\ upDisabled <=> FocusIndex = 0
        /\ downDisabled <=> FocusIndex = N - 1
        /\ (FocusIndex # 0 /\ FocusIndex # N - 1) => ~upDisabled /\ ~downDisabled

\* C12 witness: a frame found the focus point in a slide that is neither
\* the first nor the last and left both buttons enabled.
C12_Witness ==
    /\ lastOp = "frame"
    /\ N >= 3
    /\ FocusIndex \in 1..(N - 2)
    /\ ~upDisabled /\ ~downDisabled

NavigationOps == {"goToSlide", "navigateUp", "navigateDown", "keydown"}

\* C15: on a page without slides navigateUp, navigateDown, every navigation
\* key and goToSlide(i) for any i make no scrollIntoView call, touch no
\* slide and change no state.
C15_NoSlidesNoOp ==
    [][(lastOp' \in NavigationOps /\ N = 0)
         => /\ effects' = <<>>
            /\ UNCHANGED <<layoutVars, pageYOffset, smoothTarget, rafPending,
                           managerVars, headerVars, buttonVars>>]_vars

\* C15 witness: navigateDown was pressed on a scrolled page without slides
\* and asked for nothing.
C15_Witness ==
    /\ lastOp = "navigateDown"
    /\ N = 0
    /\ pageYOffset > 0
    /\ effects = <<>>

\* C16 as stated: once every scroll event has been processed by a frame,
\* currentSlide - 1 equals getCurrentSlideIndex() at every reachable scroll
\* position, those whose focus point lies in no slide included.
C16_AgreeEverywhere ==
    rafPending = 0 => currentSlide - 1 = getCurrentSlideIndex

\* C16 amended: once every scroll event has been processed by a frame,
\* currentSlide - 1 equals getCurrentSlideIndex() wherever the focus point
\* lies in a slide; where it lies in none, getCurrentSlideIndex() is 0 and
\* currentSlide is whatever it was.
C16_AgreeInSlides ==
    /\ (rafPending = 0 /\ ~NoSlideHoldsFocus)
          => currentSlide - 1 = getCurrentSlideIndex
    /\ NoSlideHoldsFocus => getCurrentSlideIndex = 0

\* C16 witness: a frame has caught up with a scroll into a later slide and
\* both answers name that slide.
C16_Witness ==
    /\ lastOp = "frame"
    /\ rafPending = 0
    /\ ~NoSlideHoldsFocus
    /\ getCurrentSlideIndex >= 1
    /\ currentSlide = getCurrentSlideIndex + 1

\* C17: goToSlide, navigateUp, navigateDown and handleKeydown write neither
\* currentSlide nor the counter: all they do is call scrollIntoView.
\* currentSlide changes only in a frame callback (after init), so it may
\* differ from the slide asked for until the scroll has been processed.
C17_NavigationOnlyScrolls ==
    [][/\ lastOp' \in NavigationOps
             => /\ UNCHANGED <<currentSlide, counterText>>
                /\ \A j \in 1..Len(effects') : effects'[j].call = "scrollIntoView"
       /\ (currentSlide' # currentSlide \/ counterText' # counterText)
             => (lastOp' = "frame" /\ rafPending > 0)]_vars

\* C17 witness: goToSlide asked for a slide other than the current one; the
\* smooth scroll is under way and currentSlide still names the old slide.
C17_Witness ==
    /\ lastOp = "goToSlide"
    /\ Len(effects) = 1
    /\ effects[1].call = "scrollIntoView"
    /\ effects[1].arg + 1 # currentSlide
    /\ smoothTarget # NoTarget

\* no handler of the step that ran last dereferenced a missing element
NoTypeError == \A j \in 1..Len(effects) : effects[j].call # "TypeError"

\* what does not depend on the two buttons: the progress bar, the counter and
\* the header work when present and are never written when absent, the
\* slide tracking works either way, and nothing throws
OptionalFeatures ==
    /\ NoTypeError
    /\ \A k \in 1..N : (AfterPass /\ FocusInSlide(k)) => currentSlide = k
    /\ IF dom.scrollProgress
       THEN progressWidth = MathMin(JSTimes(JSDivide(pageYOffset, MaxScroll), 100), 100)
               \/ ~AfterPass
       ELSE progressWidth = Unset
    /\ IF dom.currentSlideElement
       THEN /\ counterText # NotWritten => counterText = currentSlide
            /\ currentSlide # 1 => counterText = currentSlide
       ELSE counterText = NotWritten
    /\ IF dom.header
       THEN lastOp \in {"scroll", "smoothScroll"}
               => /\ lastScroll = pageYOffset
                  /\ headerBackground = "opaque" <=> pageYOffset > 100
                  /\ headerTransform \in {"hidden", "visible"}
       ELSE headerVars = <<0, "css", "css">>

\* C18 as stated: whichever optional elements are missing, nothing throws
\* and only the feature of a missing element is skipped; each of the
\* progress bar, the counter, the up button, the down button and the header
\* keeps working when it is itself present.
C18_EachElementAlone ==
    /\ OptionalFeatures
    /\ IF dom.upButton
       THEN AfterPass => (upDisabled <=> FocusIndex = 0)
       ELSE ~upDisabled
    /\ IF dom.downButton
       THEN AfterPass => (downDisabled <=> FocusIndex = N - 1)
       ELSE ~downDisabled

\* C18 amended: the two buttons are one feature.  It works when both are
\* present; when either is missing neither button is wired: no click is
\* handled and no disabled state is ever set.
C18_ButtonsTogether ==
    /\ OptionalFeatures
    /\ IF dom.upButton /\ dom.downButton
       THEN AfterPass => /\ upDisabled <=> FocusIndex = 0
                         /\ downDisabled <=> FocusIndex = N - 1
       ELSE /\ ~upDisabled /\ ~downDisabled
            /\ lastOp \notin {"navigateUp", "navigateDown"}

\* C18 witness: on a page without header and without up button a frame has
\* moved the progress bar and written slide 2 to the counter; the header
\* styles are the style sheet's and the down button was never disabled.
C18_Witness ==
    /\ ~dom.header /\ ~dom.upButton
    /\ dom.downButton /\ dom.scrollProgress /\ dom.currentSlideElement
    /\ lastOp = "frame"
    /\ currentSlide = 2 /\ counterText = 2
    /\ N = 2
    /\ progressWidth.kind = "number" /\ progressWidth.num > 0
    /\ headerBackground = "css"
    /\ ~downDisabled

\* C13: a slide's 'visible' class is absent until the slide is first
\* reported intersecting and present from then on: no later report, scroll,
\* navigation or timer takes it away.  The observer's callback and its
\* timers never touch currentSlide or the counter.
C13_VisibleOneWay ==
    /\ [](\A s \in 1..N : visible[s] <=> reported[s] >= 1)
    /\ [][\A s \in 1..N : visible[s] => visible'[s]]_vars
    /\ [][(lastOp' \in {"observer", "timer"} /\ lastOp' # lastOp)
            => UNCHANGED <<managerVars, pageYOffset, smoothTarget, rafPending>>]_vars
    /\ [][(currentSlide' # currentSlide \/ counterText' # counterText)
            => lastOp' = "frame"]_vars

\* C13 witness: slide 1 was reported intersecting once, its timers have all
\* run, and the observer has since reported a slide as not intersecting:
\* slide 1 is still visible, slide 2 never was.
C13_Witness ==
    /\ lastOp = "observer"
    /\ kids[1] >= 1
    /\ reported[1] = 1 /\ visible[1]
    /\ timers = {}
    /\ reported[2] = 0 /\ ~visible[2]

\* C14: however often a slide is reported intersecting, once or again and
\* again, also while timers of an earlier report are pending, the state
\* reached when all its timers have run is the same: the slide is visible
\* and every child is revealed.
C14_RevealIdempotent ==
    \A s \in 1..N :
        (reported[s] >= 1 /\ TimersOf(s) = {})
            => /\ visible[s]
               /\ revealed[s] = KidsOf(s)

\* C14 witness: slide 1 was reported intersecting at least twice, all its
\* timers have run and all its children are revealed.
C14_Witness ==
    /\ reported[1] = 2
    /\ kids[1] = MaxKids
    /\ TimersOf(1) = {}
    /\ visible[1]
    /\ revealed[1] = KidsOf(1)

\* the timers pending for child i of slide s
TimersFor(s, i) == {t \in timers : t.slide = s /\ t.child = i}

\* Slide s was reported intersecting once, e milliseconds ago: the
\* children due before then are revealed, those due later are not and their
\* timers have the rest of their delay to go, the one due now is revealed
\* by its timer's run.
SingleTriggerAt(s, e) ==
    \A i \in KidsOf(s) :
        LET due == i * 100
        IN IF due < e
           THEN i \in revealed[s] /\ TimersFor(s, i) = {}
           ELSE IF due > e
           THEN i \notin revealed[s] /\ TimersFor(s, i) = {Timer(s, i, due - e)}
           ELSE \/ i \in revealed[s] /\ TimersFor(s, i) = {}
                \/ i \notin revealed[s] /\ TimersFor(s, i) = {Timer(s, i, 0)}

\* C19: a report of slide s at time t schedules child i for t + i * 100 ms;
\* after a single report child i is revealed exactly then, so the children
\* are revealed in document order; every child of a reported slide is
\* revealed in the end; and a pending timer goes away only by running.
C19_StaggeredReveal ==
    /\ [][lastOp' = "observer" =>
             \A s \in 1..N : ObserverCallback(s, TRUE) =>
                 \A i \in KidsOf(s) : Timer(s, i, i * 100) \in timers']_vars
    /\ [](\A s \in 1..N : reported[s] = 1 =>
             \E d \in 0..(2 * kids[s]) : SingleTriggerAt(s, TickMs * d))
    /\ [](\A s \in 1..N : \A i \in revealed[s] : \A j \in 0..(i - 1) :
             j \in revealed[s])
    /\ (reported[1] >= 1) ~> (revealed[1] = KidsOf(1))
    /\ [][\A t \in timers :
             \/ t \in timers'
             \/ Timer(t.slide, t.child, t.delay - TickMs) \in timers'
             \/ t.delay = 0 /\ t.child \in revealed'[t.slide]]_vars

\* C19 witness: after a single report the first child is revealed and the
\* second has half its 100 ms still to wait.
C19_Witness ==
    /\ reported[1] = 1
    /\ kids[1] >= 2
    /\ 0 \in revealed[1] /\ 1 \notin revealed[1]
    /\ Timer(1, 1, TickMs) \in timers

\* the counter shows value; one never written shows the page's own text,
\* that of slide 1
CounterShows(value) ==
    \/ counterText = value
    \/ counterText = NotWritten /\ value = 1

\* the page rests at the top of slide i (0-based) and every component
\* reports slide i
RestsAt(i) ==
    /\ Settled
    /\ i < N
    /\ pageYOffset = slides[i + 1].offsetTop
    /\ getCurrentSlideIndex = i
    /\ currentSlide = i + 1
    /\ CounterShows(i + 1)

\* after goToSlide(i) the page comes to rest at slide i's top, and after a
\* navigateDown click from index s at that of slide min(s + 1, N - 1), where
\* s + 1 = N - 1 or beyond leaves the down button disabled
NavigationSettles ==
    /\ \A i \in 0..(MaxSlides - 1) :
          (i < N /\ lastOp = "goToSlide" /\ effects = <<ScrollIntoView(i)>>)
             ~> RestsAt(i)
    /\ \A s \in 0..(MaxSlides - 1) :
          (trip = [start |-> s, phase |-> "down"])
             ~> (RestsAt(IF s + 1 <= N - 1 THEN s + 1 ELSE N - 1)
                 /\ (s + 1 >= N - 1 => downDisabled))
    /\ [](Settled => (downDisabled <=> getCurrentSlideIndex = N - 1))

\* C20 as stated: on a page of N >= 1 contiguous slides, each higher than
\* half the viewport, that can scroll to every slide's top, goToSlide(i)
\* ends with the page at rest at slide i's top, getCurrentSlideIndex() = i
\* and the counter showing i + 1; navigateDown clicks lead slide by slide to
\* slide N - 1 and disable the down button; and navigateDown followed by
\* navigateUp ends on the slide it started from.
C20_RoundTripReturns ==
    /\ NavigationSettles
    /\ []((trip.phase = "up" /\ Settled) => getCurrentSlideIndex = trip.start)

\* C20 amended: the same, except that the round trip ends on the starting
\* slide only when that is not the last of several slides; from the last
\* slide navigateDown stays and navigateUp ends on slide N - 2.
C20_RoundTripClamped ==
    /\ NavigationSettles
    /\ []((trip.phase = "up" /\ Settled) =>
            getCurrentSlideIndex = IF trip.start = N - 1 /\ N >= 2
                                   THEN N - 2 ELSE trip.start)

\* C20 witness: navigateDown from the first of several slides, then
\* navigateUp, and the page rests at the first slide's top again, its counter
\* written on the way back.
C20_Witness ==
    /\ trip = [start |-> 0, phase |-> "up"]
    /\ N >= 2
    /\ RestsAt(0)
    /\ counterText = 1
    /\ lastOp = "frame"

====
